---- MODULE Spec2Model ----
(***************************************************************************)
(* Model of legal_assis.py, a Streamlit script.  Every user interaction    *)
(* (a file upload, a button press, a configuration change) re-runs the     *)
(* whole script top to bottom against st.session_state; one action of the  *)
(* model is one such script run.                                           *)
(*                                                                         *)
(* Python values: None is the record None, a str is Str(s) with s the      *)
(* sequence of its characters (a file name is kept whole: Str("a.pdf")),   *)
(* an object is a record of its attributes.                                *)
(***************************************************************************)
EXTENDS Naturals, Sequences, FiniteSets

VARIABLES
    knowledge_base,     \* st.session_state.knowledge_base
    processed_files,    \* st.session_state.processed_files
    original_doc_text,  \* st.session_state.original_doc_text
    original_doc_name,  \* st.session_state.original_doc_name
    updated_doc_text,   \* st.session_state.updated_doc_text
    updated_doc_name,   \* st.session_state.updated_doc_name
    original_uploader,  \* file held by the widget key="original_uploader"
    updated_uploader,   \* file held by the widget key="updated_uploader"
    temp_files,         \* temporary files that exist on disk
    run                 \* what the last script run did and rendered

vars == <<knowledge_base, processed_files, original_doc_text, original_doc_name,
          updated_doc_text, updated_doc_name, original_uploader, updated_uploader,
          temp_files, run>>

----------------------------------------------------------------------------
(* Bounds *)

\* Most pages an uploaded PDF has.
MaxPages == 2

\* Number of distinct names tempfile can hand out.
MaxTemp == 2

\* The prefix of a document a summarizer prompt embeds.
max_summary_input == 7500

----------------------------------------------------------------------------
(* Python values *)

None == [none |-> TRUE]

Str(s) == [str |-> s]

\* Python truthiness of an Optional[str]: None and "" are falsy.
Truthy(v) == v /= None /\ v.str /= <<>>

\* str(v) as an f-string formats it: None becomes the text "None".
Format(v) == IF v = None THEN <<"N", "o", "n", "e">> ELSE v.str

Whitespace == {" ", "\n"}

RECURSIVE LStrip(_)
LStrip(s) ==
    IF s /= <<>> /\ Head(s) \in Whitespace THEN LStrip(Tail(s)) ELSE s

RECURSIVE RStrip(_)
RStrip(s) ==
    IF s /= <<>> /\ s[Len(s)] \in Whitespace
    THEN RStrip(SubSeq(s, 1, Len(s) - 1))
    ELSE s

\* str.strip()
Strip(s) == RStrip(LStrip(s))

Min(a, b) == IF a < b THEN a ELSE b

\* Prefix without the slice bound: the whole text.
Prefix_Whole(s, n) == s

\* s[:n]
Prefix(s, n) == SubSeq(s, 1, Min(Len(s), n))

----------------------------------------------------------------------------
(* Uploaded files *)

SeqsUpTo(S, n) == UNION {[1..k -> S] : k \in 0..n}

\* Bytes of an upload: not a PDF, or a PDF that PyPDF2 parses, given by the
\* text page.extract_text() returns for each of its pages.
NotAPdf == [garbage |-> TRUE]

Pdfs(pageTexts) == {[pages |-> ps] : ps \in SeqsUpTo(pageTexts, MaxPages)}

FilesOf(names, contents) == [name : {Str(n) : n \in names}, content : contents]

\* The uploads of the session model: two names, unreadable bytes, PDFs without
\* text and with text.
Files == FilesOf({"a.pdf", "b.pdf"}, {NotAPdf} \cup Pdfs({<<"x">>}))

\* The uploads of the comparison model: texts that differ only in surrounding
\* whitespace, blank texts and texts that differ.
CompareFiles == FilesOf({"a.pdf"}, Pdfs({<<" ">>, <<"x">>}))

\* The text of a page that fills the summarizer's input up to one character
\* short of its limit; the newline that ends the page makes it exact.
LongPage == [i \in 1..(max_summary_input - 1) |-> <<"a", "b", "c">>[(i % 3) + 1]]

\* The uploads of the truncation model: texts shorter than the limit, of
\* exactly the limit and longer than it.
TruncationFiles == FilesOf({"a.pdf"}, Pdfs({<<"x">>, LongPage}))

\* The uploads of the analysis model.
AnalysisFiles == FilesOf({"a.pdf"}, {NotAPdf} \cup Pdfs({<<"x">>}))

RECURSIVE JoinPages(_)
JoinPages(ps) ==
    IF ps = <<>> THEN <<>>
    ELSE (IF Head(ps) /= <<>> THEN Head(ps) \o <<"\n">> ELSE <<>>) \o JoinPages(Tail(ps))

extract_full_pdf_text(content) ==
    IF content = NotAPdf THEN None ELSE Str(JoinPages(content.pages))

----------------------------------------------------------------------------
(* The sidebar: the two upload handlers *)

\* How building the index ends, and how os.unlink ends.
IndexOutcomes == {"ok", "ctor_raises", "load_raises"}

UnlinkOutcomes == {"ok", "raises"}

NotRun == "n/a"

SessionState ==
    [kb |-> knowledge_base, pf |-> processed_files,
     ot |-> original_doc_text, on |-> original_doc_name,
     ut |-> updated_doc_text, un |-> updated_doc_name]

\* if uploaded_file: if uploaded_file.name != st.session_state.get("original_doc_name")
OriginalIsNew(ss, file) == file /= None /\ file.name /= ss.on

FreeTemp(tf) == (1..MaxTemp) \ tf

\* tempfile.NamedTemporaryFile picks a name no existing file has.
NewTempPath(tf) == CHOOSE p \in FreeTemp(tf) : \A q \in FreeTemp(tf) : p <= q

\* RollBack forgetting the document: only the index reference is cleared.
RollBack_KeepsDocument(ss) == [ss EXCEPT !.kb = None]

\* The except branch of the original upload handler.
RollBack(ss) == [ss EXCEPT !.kb = None, !.ot = None, !.on = None]

\* BeginOriginal without the two assignments that clear the updated document.
BeginOriginal_KeepsUpdated(ss, file) ==
    [ss EXCEPT !.ot = extract_full_pdf_text(file.content),
               !.on = file.name]

\* The statements of the try block up to the creation of the temp file.
BeginOriginal(ss, file) ==
    [ss EXCEPT !.ot = extract_full_pdf_text(file.content),
               !.on = file.name,
               !.ut = None,
               !.un = None]

\* PDFKnowledgeBase(...).load(recreate=True, upsert=True) succeeded: the session's
\* index holds the chunks of the bytes written to the temp file.
BuildIndex(ss, file) ==
    [ss EXCEPT !.kb = [doc |-> file.content],
               !.pf = @ \cup {file.name}]

\* Temp files on disk when the handler finishes: os.unlink is reached only
\* after load returned.
TempAfter(tf, path, io, uo) ==
    IF io = "ok" /\ uo = "ok" THEN tf \ {path} ELSE tf \cup {path}

OriginalHandler(ss, tf, file, io, uo) ==
    IF ~OriginalIsNew(ss, file)
    THEN [ss |-> ss, tf |-> tf, processed |-> FALSE, index |-> NotRun,
          unlink |-> NotRun, temp_path |-> 0, notices |-> {}]
    ELSE LET path == NewTempPath(tf)
             s1 == BeginOriginal(ss, file)
             s2 == IF io = "ok" THEN BuildIndex(s1, file) ELSE RollBack(s1)
         IN [ss |-> s2,
             tf |-> TempAfter(tf, path, io, uo),
             processed |-> TRUE,
             index |-> io,
             unlink |-> IF io = "ok" THEN uo ELSE NotRun,
             temp_path |-> path,
             notices |->
                 (IF s1.ot = None THEN {"error_extracting"} ELSE {})
                 \cup (IF io /= "ok" THEN {"error_processing"}
                       ELSE (IF uo /= "ok" THEN {"warning_temp_not_deleted"} ELSE {})
                            \cup (IF Truthy(s2.ot) THEN {"success_analysis_and_comparison"}
                                  ELSE {"warning_analysis_only"}))]

\* if st.session_state.original_doc_text: the updated uploader is rendered.
UpdatedUploaderRendered(ss) == Truthy(ss.ot)

UpdatedIsNew(ss, file) == file /= None /\ file.name /= ss.un

UpdatedHandler(ss, file) ==
    IF UpdatedUploaderRendered(ss) /\ UpdatedIsNew(ss, file)
    THEN LET text == extract_full_pdf_text(file.content)
         IN [ss |-> [ss EXCEPT !.ut = text, !.un = file.name],
             loaded |-> TRUE,
             notices |-> (IF text = None THEN {"error_extracting"} ELSE {})
                         \cup (IF Truthy(text) THEN {"success_updated_loaded"}
                               ELSE {"error_updated_no_text"})]
    ELSE [ss |-> ss, loaded |-> FALSE,
          notices |-> IF UpdatedUploaderRendered(ss) THEN {}
                      ELSE IF ss.on /= None THEN {"warning_comparison_unavailable"}
                      ELSE {"info_upload_original_first"}]

\* The sidebar of one script run, the uploaders holding ow and uw.
Sidebar(ss, tf, ow, uw, io, uo) ==
    LET o == OriginalHandler(ss, tf, ow, io, uo)
        u == UpdatedHandler(o.ss, uw)
    IN [ss |-> u.ss,
        tf |-> o.tf,
        ow |-> ow,
        \* a widget the run does not render loses its state
        uw |-> IF UpdatedUploaderRendered(o.ss) THEN uw ELSE None,
        processed |-> o.processed,
        index |-> o.index,
        unlink |-> o.unlink,
        temp_path |-> o.temp_path,
        updated_loaded |-> u.loaded,
        notices |-> o.notices \cup u.notices]

----------------------------------------------------------------------------
(* The main page: which sections a script run renders *)

\* if st.session_state.knowledge_base: the six agents are constructed.
AgentsDefined(ss) == ss.kb /= None

\* if st.session_state.knowledge_base and st.session_state.original_doc_text
MainSections(ss) == ss.kb /= None /\ Truthy(ss.ot)

\* if st.session_state.updated_doc_text, inside the main sections
CompareButtonRendered(ss) == MainSections(ss) /\ Truthy(ss.ut)

\* The analysis section is nested in the same if as the comparison section.
AnalyzeButtonRendered(ss) == MainSections(ss)

Rendered(ss) ==
    (IF UpdatedUploaderRendered(ss) THEN {"updated_uploader"} ELSE {})
    \cup (IF MainSections(ss) THEN {"comparison_section", "analysis_section"} ELSE {})
    \cup (IF CompareButtonRendered(ss) THEN {"compare_button"} ELSE {})
    \cup (IF AnalyzeButtonRendered(ss) THEN {"analyze_button"} ELSE {})
    \cup (IF ~MainSections(ss) /\ ss.on = None THEN {"info_please_upload"} ELSE {})

----------------------------------------------------------------------------
(* Agents *)

\* What agent.run(prompt) gives: it raises, or returns None or a response
\* object whose content is None, "" or a text.
Raises == [raises |-> TRUE]

Response(content) == [content |-> content]

Responses ==
    {Raises, None, Response(None), Response(Str(<<>>)), Response(Str(<<"r">>))}

\* response_obj and response_obj.content
HasContent(r) == r /= Raises /\ r /= None /\ Truthy(r.content)

Call(agent, prompt, response) == [agent |-> agent, prompt |-> prompt, response |-> response]

\* An f-string's rendering of a file name held in session state.
FormatName(n) == IF n = None THEN "None" ELSE n.str

----------------------------------------------------------------------------
(* The main page of a script run in which no pipeline runs *)

NoOutput == [kind |-> "none"]

NoLocals == [none |-> TRUE]

\* What the main page did: the button pressed, the pipeline's position, its
\* calls, locals and rendering, and whether an exception left the script.
NoButton ==
    [button |-> "none", pc |-> "idle", query |-> None, calls |-> <<>>,
     locals |-> NoLocals, output |-> NoOutput, notices |-> {}, crashed |-> FALSE]

----------------------------------------------------------------------------
(* The Compare button handler *)

\* TextsIdentical comparing the texts as they are, without strip().
TextsIdentical_Untrimmed(a, b) == a = b

\* if original_doc_text.strip() == updated_doc_text.strip()
TextsIdentical(a, b) == Strip(a) = Strip(b)

\* (the code fence around the text is written [fence])
SummaryPrompt(text) ==
    <<"Summarize the following legal document text:\n\n[fence]\n">>
    \o Prefix(text, max_summary_input) \o <<"\n[fence]">>

\* One summarizing step: the try block of step 1 or of step 2.
SummarizeStep(ss, text, r) ==
    IF Strip(text) = <<>> \/ ~AgentsDefined(ss)
    THEN [summary |-> None, calls |-> <<>>, failed |-> TRUE]
    ELSE [summary |-> IF HasContent(r) THEN r.content ELSE None,
          calls |-> <<Call("DocumentSummarizer", SummaryPrompt(text), r)>>,
          failed |-> ~HasContent(r)]

\* Step2Runs without the test of summary_a.
Step2Runs_Always(summary_a) == TRUE

\* if summary_a:
Step2Runs(summary_a) == Truthy(summary_a)

\* if summary_a and summary_b:
Step3Runs(summary_a, summary_b) == Truthy(summary_a) /\ Truthy(summary_b)

ComparisonPrompt(ss, summary_a, summary_b) ==
    <<"Summary A (Original: ", FormatName(ss.on), "):\n">> \o summary_a.str
    \o <<"\n\nSummary B (Updated: ", FormatName(ss.un), "):\n">> \o summary_b.str
    \o <<"\n\nBased ONLY on the two summaries above, what are the likely key differences between the original and updated full documents? State clearly this is summary-based.">>

CompareStep(ss, summary_a, summary_b, r) ==
    IF ~AgentsDefined(ss)
    THEN [result |-> None, calls |-> <<>>, failed |-> TRUE]
    ELSE [result |-> IF HasContent(r) THEN r.content ELSE None,
          calls |-> <<Call("SummaryComparator",
                           ComparisonPrompt(ss, summary_a, summary_b), r)>>,
          failed |-> ~HasContent(r)]

Skipped == [summary |-> None, result |-> None, calls |-> <<>>, failed |-> FALSE]

SummaryFailed == Str(<<"_Summary failed or not generated._">>)

\* ComparisonOutput showing the summaries only when the comparison succeeded.
ComparisonOutput_HidesSummaries(summary_a, summary_b, result) ==
    [kind |-> "comparison",
     identical |-> FALSE,
     result |-> IF Truthy(result) THEN result ELSE None,
     warning |-> ~Truthy(result),
     summary_a |-> IF Truthy(result) THEN summary_a ELSE SummaryFailed,
     summary_b |-> IF Truthy(result) THEN summary_b ELSE SummaryFailed]

\* The markdown after the three steps: the result or the warning, and the
\* expander with the summaries.
ComparisonOutput(summary_a, summary_b, result) ==
    [kind |-> "comparison",
     identical |-> FALSE,
     result |-> IF Truthy(result) THEN result ELSE None,
     warning |-> ~Truthy(result),
     summary_a |-> IF Truthy(summary_a) THEN summary_a ELSE SummaryFailed,
     summary_b |-> IF Truthy(summary_b) THEN summary_b ELSE SummaryFailed]

IdenticalOutput ==
    [kind |-> "comparison", identical |-> TRUE, result |-> None, warning |-> FALSE,
     summary_a |-> None, summary_b |-> None]

\* if st.button("Compare Documents using AI Summaries"): ra, rb and rc are what
\* the three agent calls give if they are made.
CompareHandler(ss, ra, rb, rc) ==
    IF TextsIdentical(ss.ot.str, ss.ut.str)
    THEN [NoButton EXCEPT !.button = "compare", !.output = IdenticalOutput,
                          !.notices = {"success_identical"}]
    ELSE LET s1 == SummarizeStep(ss, ss.ot.str, ra)
             s2 == IF Step2Runs(s1.summary) THEN SummarizeStep(ss, ss.ut.str, rb)
                   ELSE Skipped
             s3 == IF Step3Runs(s1.summary, s2.summary)
                   THEN CompareStep(ss, s1.summary, s2.summary, rc)
                   ELSE Skipped
         IN [NoButton EXCEPT
                !.button = "compare",
                !.calls = s1.calls \o s2.calls \o s3.calls,
                !.locals = [summary_a |-> s1.summary, summary_b |-> s2.summary,
                            comparison_result_content |-> s3.result],
                !.output = ComparisonOutput(s1.summary, s2.summary, s3.result),
                !.notices =
                    (IF s1.failed THEN {"error_summarizing_original"}
                     ELSE {"info_original_summarized"})
                    \cup (IF s2.failed THEN {"error_summarizing_updated"} ELSE {})
                    \cup (IF s2.calls /= <<>> /\ ~s2.failed
                          THEN {"info_updated_summarized"} ELSE {})
                    \cup (IF s3.failed THEN {"error_comparing"} ELSE {})
                    \cup (IF s3.calls /= <<>> /\ ~s3.failed
                          THEN {"info_comparison_complete"} ELSE {})]

----------------------------------------------------------------------------
(* The Analyze button handler.  Every agent.run is a blocking call to the   *)
(* inference endpoint; the handler is modelled call by call, run.pc naming  *)
(* the call the script is blocked in, and no other script run starts until  *)
(* the handler has finished.                                                *)

AnalysisTypes ==
    {"Contract Review", "Legal Research", "Risk Assessment", "Compliance Check",
     "Custom Query"}

\* The four template texts, by their first words.
predefined_queries ==
    [t \in AnalysisTypes \ {"Custom Query"} |->
        CASE t = "Contract Review" -> Str(<<"Analyze this legal document from the knowledge base. ...">>)
          [] t = "Legal Research" -> Str(<<"Based on the content of the document in the knowledge base, ...">>)
          [] t = "Risk Assessment" -> Str(<<"Extract data from the knowledge base for this document. ...">>)
          [] t = "Compliance Check" -> Str(<<"Evaluate the document in the knowledge base for compliance ...">>)]

\* What the user may have typed in the custom query box.
CustomQueries == {Str(<<>>), Str(<<"q">>)}

QueryOf(analysis_type, custom) ==
    IF analysis_type = "Custom Query" THEN custom ELSE predefined_queries[analysis_type]

NoResponseAdvisor == Str(<<"No response from Legal Advisor.">>)

NoResponseAnalyst == Str(<<"No response from Contract Analyst.">>)

NoResponseStrategist == Str(<<"No response from Legal Strategist.">>)

\* response_obj.content if response_obj else placeholder
ContentOr(r, placeholder) == IF r /= None THEN r.content ELSE placeholder

ResearcherMarker == "\n\nIntegrate the following insights gathered using the contract data:\n\n--- Legal Researcher Insights ---\n"

AnalystMarker == "\n\n--- Contract Analyst Insights ---\n"

StrategistMarker == "\n\n--- Legal Strategist Insights ---\n"

ReportMarker == "\n\nProvide a structured legal analysis report addressing the original query, ..."

\* TeamPrompt with the researcher's and the analyst's insights exchanged.
TeamPrompt_Swapped(query, research, contract, strategy) ==
    <<"Original Query: ">> \o query.str
    \o <<ResearcherMarker>> \o Format(contract)
    \o <<AnalystMarker>> \o Format(research)
    \o <<StrategistMarker>> \o Format(strategy)
    \o <<ReportMarker>>

\* The f-string handed to team_lead.run in get_team_response.
TeamPrompt(query, research, contract, strategy) ==
    <<"Original Query: ">> \o query.str
    \o <<ResearcherMarker>> \o Format(research)
    \o <<AnalystMarker>> \o Format(contract)
    \o <<StrategistMarker>> \o Format(strategy)
    \o <<ReportMarker>>

KeyPointsPrompt(report) ==
    <<"Based on the following full analysis report, extract and list the most critical key points ...:\n\n">>
    \o Format(report)

RecommendationsPrompt(report) ==
    <<"Based on the following full analysis report, extract only the specific, actionable legal recommendations provided. List them clearly:\n\n">>
    \o Format(report)

AnalysisLocals ==
    [research_response |-> None, contract_response |-> None,
     strategy_response |-> None, response_obj |-> None]

AnalysisOutput ==
    [kind |-> "analysis", report |-> None, key_points |-> None,
     recommendations |-> None]

\* if st.button("Analyze Document"), up to the first agent call.
AnalyzeHandler(query) ==
    IF ~Truthy(query)
    THEN [NoButton EXCEPT !.button = "analyze", !.query = query,
                          !.notices = {"warning_enter_query"}]
    ELSE [NoButton EXCEPT !.button = "analyze", !.query = query,
                          !.pc = "legal_researcher",
                          !.locals = AnalysisLocals,
                          !.output = AnalysisOutput,
                          !.notices = {"info_gathering"}]

----------------------------------------------------------------------------
(* Script runs *)

\* The outcomes the environment may give the original handler in this run.
IndexChoices(ss, file) == IF OriginalIsNew(ss, file) THEN IndexOutcomes ELSE {NotRun}

UnlinkChoices(io) == IF io = "ok" THEN UnlinkOutcomes ELSE {NotRun}

RunRecord(sb, m) ==
    [processed |-> sb.processed,
     index |-> sb.index,
     unlink |-> sb.unlink,
     temp_path |-> sb.temp_path,
     updated_loaded |-> sb.updated_loaded,
     rendered |-> Rendered(sb.ss),
     notices |-> sb.notices \cup m.notices,
     button |-> m.button,
     pc |-> m.pc,
     query |-> m.query,
     calls |-> m.calls,
     locals |-> m.locals,
     output |-> m.output,
     crashed |-> m.crashed]

\* The state a script run leaves: sb is its sidebar, m its main page.
Leaves(sb, m) ==
    [knowledge_base |-> sb.ss.kb,
     processed_files |-> sb.ss.pf,
     original_doc_text |-> sb.ss.ot,
     original_doc_name |-> sb.ss.on,
     updated_doc_text |-> sb.ss.ut,
     updated_doc_name |-> sb.ss.un,
     original_uploader |-> sb.ow,
     updated_uploader |-> sb.uw,
     temp_files |-> sb.tf,
     run |-> RunRecord(sb, m)]

\* The session state of a state record.
SessionOf(st) ==
    [kb |-> st.knowledge_base, pf |-> st.processed_files,
     ot |-> st.original_doc_text, on |-> st.original_doc_name,
     ut |-> st.updated_doc_text, un |-> st.updated_doc_name]

\* Session start: every session_state key is initialised on the first run.
Fresh ==
    Leaves([ss |-> [kb |-> None, pf |-> {}, ot |-> None, on |-> None,
                    ut |-> None, un |-> None],
            tf |-> {}, ow |-> None, uw |-> None,
            processed |-> FALSE, index |-> NotRun, unlink |-> NotRun,
            temp_path |-> 0, updated_loaded |-> FALSE,
            notices |-> {"info_upload_original_first"}],
           NoButton)

\* The state after a script run from st with the uploaders holding ow and uw
\* and no button pressed.
Rerun(st, ow, uw, io, uo) ==
    Leaves(Sidebar(SessionOf(st), st.temp_files, ow, uw, io, uo), NoButton)

\* A session in which original and updated have been uploaded (None: not yet)
\* and indexed without failure.
Uploaded(original, updated) ==
    LET io(st, f) == IF OriginalIsNew(SessionOf(st), f) THEN "ok" ELSE NotRun
        first == Rerun(Fresh, original, None, io(Fresh, original), io(Fresh, original))
    IN IF updated = None \/ "updated_uploader" \notin first.run.rendered THEN first
       ELSE Rerun(first, original, updated, NotRun, NotRun)

Is(st) ==
    /\ knowledge_base = st.knowledge_base
    /\ processed_files = st.processed_files
    /\ original_doc_text = st.original_doc_text
    /\ original_doc_name = st.original_doc_name
    /\ updated_doc_text = st.updated_doc_text
    /\ updated_doc_name = st.updated_doc_name
    /\ original_uploader = st.original_uploader
    /\ updated_uploader = st.updated_uploader
    /\ temp_files = st.temp_files
    /\ run = st.run

Becomes(st) ==
    /\ knowledge_base' = st.knowledge_base
    /\ processed_files' = st.processed_files
    /\ original_doc_text' = st.original_doc_text
    /\ original_doc_name' = st.original_doc_name
    /\ updated_doc_text' = st.updated_doc_text
    /\ updated_doc_name' = st.updated_doc_name
    /\ original_uploader' = st.original_uploader
    /\ updated_uploader' = st.updated_uploader
    /\ temp_files' = st.temp_files
    /\ run' = st.run

\* The main page of a run: button is the button pressed ("none": no button)
\* and input what its handler reads, the agents' responses or the query.
MainPage(ss, button, input) ==
    IF button = "compare" /\ CompareButtonRendered(ss)
    THEN CompareHandler(ss, input[1], input[2], input[3])
    ELSE IF button = "analyze" /\ AnalyzeButtonRendered(ss)
    THEN AnalyzeHandler(input)
    ELSE NoButton

\* A script run with the uploaders holding ow and uw.
ScriptRun(ow, uw, button, input) ==
    /\ OriginalIsNew(SessionState, ow) => FreeTemp(temp_files) /= {}
    /\ \E io \in IndexChoices(SessionState, ow) : \E uo \in UnlinkChoices(io) :
          LET sb == Sidebar(SessionState, temp_files, ow, uw, io, uo)
          IN Becomes(Leaves(sb, MainPage(sb.ss, button, input)))

\* A script run starts when no pipeline of an earlier run is in progress.
Idle == run.pc = "idle"

Init == Is(Fresh)

UploadOriginal ==
    /\ Idle
    /\ \E f \in Files : ScriptRun(f, updated_uploader, "none", <<>>)

RemoveOriginal ==
    /\ Idle
    /\ original_uploader /= None
    /\ ScriptRun(None, updated_uploader, "none", <<>>)

UploadUpdated ==
    /\ Idle
    /\ "updated_uploader" \in run.rendered
    /\ \E f \in Files : ScriptRun(original_uploader, f, "none", <<>>)

RemoveUpdated ==
    /\ Idle
    /\ "updated_uploader" \in run.rendered
    /\ updated_uploader /= None
    /\ ScriptRun(original_uploader, None, "none", <<>>)

\* A change of chunk size or overlap re-runs the script.  (A button press
\* re-runs the sidebar in the same way, the uploaders holding what they held.)
ChangeConfig ==
    /\ Idle
    /\ ScriptRun(original_uploader, updated_uploader, "none", <<>>)

Next ==
    \/ UploadOriginal
    \/ RemoveOriginal
    \/ UploadUpdated
    \/ RemoveUpdated
    \/ ChangeConfig

Spec == Init /\ [][Next]_vars

----------------------------------------------------------------------------
(* The comparison model: sessions with both documents loaded, Compare pressed *)

CompareInit == \E f \in CompareFiles, g \in CompareFiles : Is(Uploaded(f, g))

PressCompare ==
    /\ Idle
    /\ "compare_button" \in run.rendered
    /\ \E ra \in Responses, rb \in Responses, rc \in Responses :
          ScriptRun(original_uploader, updated_uploader, "compare", <<ra, rb, rc>>)

CompareNext == PressCompare \/ ChangeConfig

CompareSpec == CompareInit /\ [][CompareNext]_vars

----------------------------------------------------------------------------
(* The truncation model: Compare pressed on documents around the summarizer's *)
(* input limit                                                               *)

\* What the agents give in the truncation model: a call raises or returns text.
TruncationResponses == {Raises, Response(Str(<<"r">>))}

TruncationInit ==
    \E f \in TruncationFiles, g \in TruncationFiles : Is(Uploaded(f, g))

PressCompareLong ==
    /\ Idle
    /\ "compare_button" \in run.rendered
    /\ \E ra \in TruncationResponses, rb \in TruncationResponses,
          rc \in TruncationResponses :
          ScriptRun(original_uploader, updated_uploader, "compare", <<ra, rb, rc>>)

TruncationNext == PressCompareLong \/ ChangeConfig

TruncationSpec == TruncationInit /\ [][TruncationNext]_vars

----------------------------------------------------------------------------
(* The analysis model: the steps of the Analyze handler *)

PressAnalyze ==
    /\ Idle
    /\ "analyze_button" \in run.rendered
    /\ \E t \in AnalysisTypes, c \in CustomQueries :
          ScriptRun(original_uploader, updated_uploader, "analyze", QueryOf(t, c))

Session == <<knowledge_base, processed_files, original_doc_text, original_doc_name,
             updated_doc_text, updated_doc_name, original_uploader,
             updated_uploader, temp_files>>

\* The else branch of the handler: get_team_response returned no content.
AnalysisFailed(r) ==
    [r EXCEPT !.pc = "idle", !.notices = @ \cup {"error_analysis_failed"}]

\* The except branch of get_team_response: it reports and returns None.
TeamRaised(r) ==
    AnalysisFailed([r EXCEPT !.notices = @ \cup {"error_agent_execution"}])

\* One specialist's agent.run(query) gives resp.
SpecialistReturns(r, agent, resp, local, placeholder, next) ==
    LET called == [r EXCEPT !.calls = Append(@, Call(agent, r.query.str, resp))]
    IN IF resp = Raises THEN TeamRaised(called)
       ELSE [called EXCEPT !.locals[local] = ContentOr(resp, placeholder),
                           !.pc = next]

LegalResearcherReturns ==
    /\ run.pc = "legal_researcher"
    /\ \E resp \in Responses :
          run' = SpecialistReturns(run, "LegalAdvisor", resp, "research_response",
                                   NoResponseAdvisor, "contract_analyst")
    /\ UNCHANGED Session

ContractAnalystReturns ==
    /\ run.pc = "contract_analyst"
    /\ \E resp \in Responses :
          run' = SpecialistReturns(run, "ContractAnalyst", resp, "contract_response",
                                   NoResponseAnalyst, "legal_strategist")
    /\ UNCHANGED Session

LegalStrategistReturns ==
    /\ run.pc = "legal_strategist"
    /\ \E resp \in Responses :
          run' = SpecialistReturns(run, "LegalStrategist", resp, "strategy_response",
                                   NoResponseStrategist, "team_lead")
    /\ UNCHANGED Session

\* team_lead.run(...) of get_team_response gives resp; the handler then opens
\* the tabs or reports the failure.
TeamLeadStep(r, resp) ==
    LET prompt == TeamPrompt(r.query, r.locals.research_response,
                             r.locals.contract_response, r.locals.strategy_response)
        called == [r EXCEPT !.calls = Append(@, Call("TeamLead", prompt, resp))]
    IN IF resp = Raises THEN TeamRaised(called)
       ELSE IF ~HasContent(resp)
       THEN AnalysisFailed([called EXCEPT !.locals.response_obj = resp])
       ELSE [called EXCEPT !.locals.response_obj = resp,
                           !.output.report = resp.content,
                           !.pc = "key_points"]

TeamLeadReturns ==
    /\ run.pc = "team_lead"
    /\ \E resp \in Responses : run' = TeamLeadStep(run, resp)
    /\ UNCHANGED Session

CouldNotKeyPoints == Str(<<"Could not generate key points summary.">>)

CouldNotRecommendations == Str(<<"Could not generate recommendations summary.">>)

\* A follow-up team_lead.run in a tab: no try encloses it.
FollowUpStep(r, prompt, resp, field, fallback, next) ==
    LET called == [r EXCEPT !.calls = Append(@, Call("TeamLead", prompt, resp))]
    IN IF resp = Raises
       THEN [called EXCEPT !.pc = "idle", !.crashed = TRUE]
       ELSE [called EXCEPT !.output[field] =
                               IF HasContent(resp) THEN resp.content ELSE fallback,
                           !.pc = next]

KeyPointsReturns ==
    /\ run.pc = "key_points"
    /\ \E resp \in Responses :
          run' = FollowUpStep(run, KeyPointsPrompt(run.locals.response_obj.content),
                              resp, "key_points", CouldNotKeyPoints, "recommendations")
    /\ UNCHANGED Session

RecommendationsReturns ==
    /\ run.pc = "recommendations"
    /\ \E resp \in Responses :
          run' = FollowUpStep(run, RecommendationsPrompt(run.locals.response_obj.content),
                              resp, "recommendations", CouldNotRecommendations, "idle")
    /\ UNCHANGED Session

\* The analysis model: sessions with an original uploaded, Analyze pressed.
AnalysisInit == \E f \in AnalysisFiles : Is(Uploaded(f, None))

AnalysisNext ==
    \/ PressAnalyze
    \/ LegalResearcherReturns
    \/ ContractAnalystReturns
    \/ LegalStrategistReturns
    \/ TeamLeadReturns
    \/ KeyPointsReturns
    \/ RecommendationsReturns

AnalysisSpec == AnalysisInit /\ [][AnalysisNext]_vars

----------------------------------------------------------------------------
(* Properties of the upload handlers, checked under Spec *)

IndexFailed == run.processed /\ run.index \in {"ctor_raises", "load_raises"}

\* C1: a script run that processes an upload as the original while an updated
\* document is loaded leaves updated_doc_text and updated_doc_name both None.
C1_UpdatedClearedByOriginalUpload ==
    [][(run'.processed /\ Truthy(updated_doc_text))
        => updated_doc_text' = None /\ updated_doc_name' = None]_vars

\* C2: when building the index fails while an original upload is handled, the
\* run leaves knowledge_base, original_doc_text and original_doc_name None, adds
\* nothing to processed_files and renders neither the analysis section nor the
\* comparison section.
C2_IndexFailureRollsBack ==
    [][(run'.processed /\ run'.index \in {"ctor_raises", "load_raises"})
        => /\ knowledge_base' = None
           /\ original_doc_text' = None
           /\ original_doc_name' = None
           /\ processed_files' = processed_files
           /\ run'.rendered \cap {"analysis_section", "analyze_button",
                                  "comparison_section", "compare_button"} = {}]_vars

\* An index build fails for an upload that replaces a loaded, indexed original.
C2_Witness ==
    /\ IndexFailed
    /\ run.index = "load_raises"
    /\ processed_files /= {}
    /\ original_uploader /= None
    /\ original_uploader.name \notin processed_files

\* C3: the temp file the original upload handler created does not exist when
\* the handler finishes, on every path (os.unlink itself not failing).
C3_TempFileDeleted ==
    (run.processed /\ run.unlink /= "raises") => run.temp_path \notin temp_files

\* C4: when extraction of the original gave None and indexing succeeded, the
\* updated uploader and the Compare button are not offered and the Analyze
\* Document button is.
C4_AnalysisOfferedWithoutText ==
    (run.processed /\ run.index = "ok" /\ original_doc_text = None)
        => /\ "updated_uploader" \notin run.rendered
           /\ "compare_button" \notin run.rendered
           /\ "analyze_button" \in run.rendered

\* C5: when a file is put into the original uploader and indexing does not
\* fail, the run leaves knowledge_base an index built from that file's bytes,
\* also when the file has the name of the loaded original.
C5_IndexReflectsLatestOriginal ==
    [][(/\ original_uploader' /= None
        /\ original_uploader' /= original_uploader
        /\ run'.index \notin {"ctor_raises", "load_raises"})
        => /\ knowledge_base' /= None
           /\ knowledge_base'.doc = original_uploader'.content]_vars

----------------------------------------------------------------------------
(* Properties of the Compare handler, checked under CompareSpec *)

ComparePressed == run.button = "compare"

CallsOf(agent) == {i \in 1..Len(run.calls) : run.calls[i].agent = agent}

\* C6: when Compare is pressed and the two texts are equal after trimming
\* surrounding whitespace, the run reports the documents identical and calls
\* neither DocumentSummarizer nor SummaryComparator.
C6_IdenticalTextsMakeNoCalls ==
    (ComparePressed /\ Strip(original_doc_text.str) = Strip(updated_doc_text.str))
        => /\ run.output.identical
           /\ "success_identical" \in run.notices
           /\ CallsOf("DocumentSummarizer") = {}
           /\ CallsOf("SummaryComparator") = {}

\* Compare was pressed on texts that differ, but only in surrounding whitespace.
C6_Witness ==
    /\ ComparePressed
    /\ original_doc_text /= updated_doc_text
    /\ Strip(original_doc_text.str) = Strip(updated_doc_text.str)
    /\ Strip(original_doc_text.str) /= <<>>

\* C7: in a comparison run the stages are invoked in the order summarizer,
\* summarizer, comparator, each only if every earlier stage was invoked and
\* returned content; a failed summary of the original is reported as an error
\* and no further agent is invoked, a failed summary of the updated text is
\* reported as an error and the comparator is not invoked; and no exception
\* leaves the handler.
C7_StagesGatedOnEarlierContent ==
    (ComparePressed /\ ~run.output.identical)
        => LET calls == run.calls
               stage1ok == Len(calls) >= 1 /\ HasContent(calls[1].response)
               stage2ok == Len(calls) >= 2 /\ HasContent(calls[2].response)
           IN /\ Len(calls) <= 3
              /\ \A i \in 1..Len(calls) :
                    /\ calls[i].agent = <<"DocumentSummarizer", "DocumentSummarizer",
                                          "SummaryComparator">>[i]
                    /\ \A j \in 1..(i - 1) : HasContent(calls[j].response)
              /\ ~stage1ok => /\ Len(calls) <= 1
                              /\ "error_summarizing_original" \in run.notices
              /\ (stage1ok /\ ~stage2ok)
                    => /\ CallsOf("SummaryComparator") = {}
                       /\ "error_summarizing_updated" \in run.notices
              /\ ~run.crashed
              /\ run.pc = "idle"

\* The summarizer raised on the original text of a comparison run.
C7_Witness ==
    /\ ComparePressed
    /\ Len(run.calls) = 1
    /\ run.calls[1].response = Raises

\* C8: in a comparison run of texts that are not identical, the comparison
\* text is rendered exactly when the comparator was invoked and returned
\* content, the warning is rendered otherwise, and the summaries panel shows
\* each summary that completed and the failure placeholder for each that did
\* not.
C8_ComparisonRendering ==
    (ComparePressed /\ ~run.output.identical)
        => LET calls == run.calls
               out == run.output
               done(i) == Len(calls) >= i /\ HasContent(calls[i].response)
           IN /\ out.result /= None <=> done(3)
              /\ done(3) => out.result = calls[3].response.content
              /\ out.warning <=> ~done(3)
              /\ out.summary_a = IF done(1) THEN calls[1].response.content
                                 ELSE SummaryFailed
              /\ out.summary_b = IF done(2) THEN calls[2].response.content
                                 ELSE SummaryFailed

\* Both summaries completed and the comparator returned a response without
\* content: the warning is rendered with both summaries.
C8_Witness ==
    /\ ComparePressed
    /\ Len(run.calls) = 3
    /\ run.calls[3].response = Response(Str(<<>>))
    /\ run.output.warning
    /\ run.output.summary_a = run.calls[1].response.content
    /\ run.output.summary_b = run.calls[2].response.content

----------------------------------------------------------------------------
(* Properties of the analysis pipeline, checked under AnalysisSpec *)

AnalyzePressed == run.button = "analyze"

\* The handler has finished a run that had a query to send.
AnalysisDone == AnalyzePressed /\ run.pc = "idle" /\ Truthy(run.query)

Specialists == <<"LegalAdvisor", "ContractAnalyst", "LegalStrategist">>

Placeholders == <<NoResponseAdvisor, NoResponseAnalyst, NoResponseStrategist>>

\* The calls of the run that hand an agent a synthesis prompt.
SynthesisCalls ==
    {i \in 1..Len(run.calls) : /\ run.calls[i].agent = "TeamLead"
                               /\ Head(run.calls[i].prompt) = "Original Query: "}

PositionOf(prompt, marker) == CHOOSE i \in 1..Len(prompt) : prompt[i] = marker

\* The part of a prompt between two of its fixed texts.
Between(prompt, before, after) ==
    SubSeq(prompt, PositionOf(prompt, before) + 1, PositionOf(prompt, after) - 1)

\* The parts of a synthesis prompt: the query and the three insights.
PromptParts(prompt) ==
    <<Between(prompt, "Original Query: ", ResearcherMarker),
      Between(prompt, ResearcherMarker, AnalystMarker),
      Between(prompt, AnalystMarker, StrategistMarker),
      Between(prompt, StrategistMarker, ReportMarker)>>

\* A specialist's output as text: its response's content, or its placeholder
\* when it returned no response object.
OutputText(i) ==
    IF run.calls[i].response = None THEN Placeholders[i].str
    ELSE Format(run.calls[i].response.content)

\* An empty or null result: no response object, or one without content.
EmptyResult(r) == r = None \/ ~Truthy(r.content)

NoSpecialistRaised ==
    \A i \in 1..Min(Len(run.calls), 3) : run.calls[i].response /= Raises

\* C9 as stated: in an analysis run with query q each of the three specialists
\* is invoked exactly once with q, before TeamLead, and TeamLead is invoked
\* exactly once for synthesis, with a prompt that contains q and the three
\* outputs in the order Advisor, Analyst, Strategist.
C9_EverySpecialistAndTeamLeadOnce ==
    AnalysisDone
        => /\ Len(run.calls) >= 4
           /\ \A i \in 1..3 : /\ run.calls[i].agent = Specialists[i]
                              /\ run.calls[i].prompt = run.query.str
                              /\ CallsOf(Specialists[i]) = {i}
           /\ SynthesisCalls = {4}
           /\ PromptParts(run.calls[4].prompt)
                = <<run.query.str, OutputText(1), OutputText(2), OutputText(3)>>

\* C9 amended: the specialists are invoked in the order Advisor, Analyst,
\* Strategist, each at most once and with q, a later one only after the earlier
\* ones returned without raising; TeamLead is invoked for synthesis at most
\* once, only after all three returned, with a prompt that contains q and the
\* three outputs in that order; and when no specialist raises, each specialist
\* and the synthesis are invoked exactly once.
C9_SpecialistsInOrderThenTeamLead ==
    AnalyzePressed
        => LET calls == run.calls
               n == Len(calls)
           IN /\ \A i \in 1..Min(n, 3) : /\ calls[i].agent = Specialists[i]
                                         /\ calls[i].prompt = run.query.str
              /\ \A i \in 1..3 : CallsOf(Specialists[i]) \subseteq {i}
              /\ \A i \in 1..Min(n, 4) : \A j \in 1..(i - 1) : calls[j].response /= Raises
              /\ SynthesisCalls \subseteq {4}
              /\ n >= 4 =>
                    /\ SynthesisCalls = {4}
                    /\ PromptParts(calls[4].prompt)
                         = <<run.query.str, OutputText(1), OutputText(2), OutputText(3)>>
              /\ (AnalysisDone /\ NoSpecialistRaised) => n >= 4
              /\ ~NoSpecialistRaised => n <= 3 /\ calls[n].response = Raises
              /\ ~Truthy(run.query) => n = 0

\* A finished run whose advisor returned no response object, whose analyst
\* returned text and whose strategist returned a response without content.
C9_Witness ==
    /\ AnalysisDone
    /\ Len(run.calls) >= 4
    /\ run.calls[1].response = None
    /\ HasContent(run.calls[2].response)
    /\ run.calls[3].response = Response(None)

\* C10: whenever a specialist returns an empty or null result, the run goes on
\* to invoke TeamLead and the synthesis prompt holds that specialist's
\* 'No response from ...' placeholder in place of its output.
C10_PlaceholderForEmptyResult ==
    (AnalysisDone /\ NoSpecialistRaised)
        => /\ Len(run.calls) >= 4
           /\ \A i \in 1..3 :
                 EmptyResult(run.calls[i].response)
                    => PromptParts(run.calls[4].prompt)[i + 1] = Placeholders[i].str

----------------------------------------------------------------------------
(* Failures of agent calls, checked under AnalysisSpec *)

RaisedCalls == {i \in 1..Len(run.calls) : run.calls[i].response = Raises}

\* The notices an except branch around an agent call renders.
AgentErrorNotices ==
    {"error_agent_execution", "error_summarizing_original",
     "error_summarizing_updated", "error_comparing"}

\* C11: no failure of an agent call terminates the script run: whichever call
\* of a pipeline raises (a specialist, the TeamLead synthesis, the key points
\* or the recommendations call, a summarizer or the comparator), the exception
\* is caught, an error notice is rendered and no later stage of the pipeline
\* is run.
C11_AgentFailureCaught ==
    \A i \in RaisedCalls :
        /\ ~run.crashed
        /\ run.notices \cap AgentErrorNotices /= {}
        /\ i = Len(run.calls)
        /\ run.pc = "idle"

----------------------------------------------------------------------------
(* The summarizer's input, checked under TruncationSpec *)

\* The document text a summarizer prompt embeds between its fixed parts.
Embedded(prompt) == SubSeq(prompt, 2, Len(prompt) - 1)

\* s is the first min(Len(text), n) characters of text.
IsPrefixOfLength(s, text, n) ==
    /\ Len(s) = Min(Len(text), n)
    /\ \A k \in 1..Len(s) : s[k] = text[k]

\* The texts of a comparison run, in the order they are summarized.
SummarizedTexts == <<original_doc_text.str, updated_doc_text.str>>

\* C12: each summarizer call of a comparison run is handed a prompt that embeds
\* exactly the first min(length, 7500) characters of its text, the original for
\* the first call and the updated for the second, and a text longer than 7500
\* characters is not rejected: the summarizer is invoked for the original, and
\* for the updated once the original's summary returned content.
C12_SummarizerInputTruncated ==
    (ComparePressed /\ ~run.output.identical)
        => LET calls == run.calls
           IN /\ CallsOf("DocumentSummarizer") \subseteq {1, 2}
              /\ \A i \in CallsOf("DocumentSummarizer") :
                    IsPrefixOfLength(Embedded(calls[i].prompt), SummarizedTexts[i],
                                     7500)
              /\ Len(SummarizedTexts[1]) > 7500
                    => 1 \in CallsOf("DocumentSummarizer")
              /\ (/\ Len(SummarizedTexts[2]) > 7500
                  /\ 1 \in CallsOf("DocumentSummarizer")
                  /\ HasContent(calls[1].response))
                    => 2 \in CallsOf("DocumentSummarizer")

\* Both documents were summarized, the original longer than the limit and cut
\* to it, the updated shorter than the limit.
C12_Witness ==
    /\ ComparePressed
    /\ CallsOf("DocumentSummarizer") = {1, 2}
    /\ Len(original_doc_text.str) > 7500
    /\ Len(Embedded(run.calls[1].prompt)) = 7500
    /\ Len(updated_doc_text.str) < 7500
    /\ Embedded(run.calls[2].prompt) = updated_doc_text.str

----------------------------------------------------------------------------
(* The session state a script run leaves, checked under Spec *)

\* C13: at the end of every script run, whatever uploads, extraction failures
\* and indexing failures came before, updated_doc_text is not None only if
\* original_doc_text is a non-empty text, original_doc_text is not None only
\* if knowledge_base is not None, and the Compare button is rendered only in
\* a run that has constructed the agents.
C13_SessionStateConsistent ==
    /\ updated_doc_text /= None
          => original_doc_text /= None /\ original_doc_text.str /= <<>>
    /\ original_doc_text /= None => knowledge_base /= None
    /\ "compare_button" \in run.rendered => knowledge_base /= None

\* A run that replaced the original and loaded the updated document again,
\* Compare being offered, in a session in which an earlier index build failed
\* or left its temp file behind.
C13_Witness ==
    /\ run.processed
    /\ run.updated_loaded
    /\ "compare_button" \in run.rendered
    /\ temp_files /= {}
    /\ Cardinality(processed_files) = 2
====
